---- MODULE Spec2Model ----
(***************************************************************************)
(* Model of the ExplorIR CO2 sensor driver (src/src/explorir.c,            *)
(* src/src/explorir.h): the receive buffer, the cached sensor state of     *)
(* explorir_handler_t, the response scanner explorir_process_response      *)
(* (one action per iteration of its while loop, one per switch case),      *)
(* explorir_update_data and the request operations.                        *)
(* Bytes are ASCII codes.  Buffer indices are 0-based as in the C code.    *)
(***************************************************************************)
EXTENDS Integers, Sequences, FiniteSets, TLC

VARIABLES
    explorir_data,            \* uint8_t explorir_data[UART_RX_BUF_SIZE]
    err_code,                 \* explorir_retcode_t err_code
    scaling_factor,           \* uint16_t
    current_filtered_co2,     \* uint32_t
    current_unfiltered_co2,   \* uint32_t
    digital_filter,           \* uint32_t
    zero_point,               \* uint32_t
    pressure_and_concentration_compensation, \* uint32_t
    current_mode,             \* explorir_mode_t (an int)
    explorir_complete_uart_rx,\* extern volatile bool
    pc,                       \* position of the main thread
    i,                        \* cursor of explorir_process_response
    beyond,                   \* bytes found after the buffer once read
    op,                       \* request operation in progress ("none" if the scanner was called directly)
    remaining,                \* calls of the scanner the operation still makes
    txlog,                    \* frames handed to explorir_tx, in order (the command part keeps
                              \* those of the operation called last)
    replyPending,             \* a frame was transmitted and its reply has not been delivered
    \* history variables of the current scanner call
    buf0,                     \* buffer contents when the call started
    pre,                      \* handler fields when the call (of the scanner, of the wait) started
    maxRead,                  \* highest address read by the call (-1: none)
    parsed,                   \* tags parsed by the call
    revisit,                  \* the cursor came back to an index it had passed
    calls,                    \* scanner calls started so far
    ret,                      \* status returned by the last request operation
    pending,                  \* the buffer holds a delivered reply that no call has scanned
    call,                     \* the operation called last and its arguments
    timer,                    \* uint32_t timer of explorir_wait_for_response
    waited                    \* history of the call of explorir_wait_for_response made last

vars == << explorir_data, err_code, scaling_factor, current_filtered_co2,
           current_unfiltered_co2, digital_filter, zero_point,
           pressure_and_concentration_compensation, current_mode,
           explorir_complete_uart_rx, pc, i, beyond, op, remaining, txlog,
           replyPending, buf0, pre, maxRead, parsed, revisit, calls, ret, pending,
           call, timer, waited >>

waitvars == << timer, waited >>
hist == << buf0, pre, maxRead, parsed, revisit >>
fields == << err_code, scaling_factor, current_filtered_co2,
             current_unfiltered_co2, digital_filter, zero_point,
             pressure_and_concentration_compensation, current_mode >>

(***************************************************************************)
(* Program constants                                                       *)
(***************************************************************************)
UART_RX_BUF_SIZE == 128
TERMINATE == 10
CR == 13
SPACE == 32
CHAR_0 == 48
SCALING_FACTOR == 46
FILTERED_CO2_MEASUREMENT == 90
UNFILTERED_CO2_MEASUREMENT == 122
OPERATION_MODE == 75
SET_DIGITAL_FILTER == 65
GET_DIGITAL_FILTER == 97
FINE_TUNE_ZERO_POINT == 70
SET_ZERO_POINT_USING_FRESH_AIR == 71
SET_ZERO_POINT_USING_KNOWN_GAS == 88
SET_ZERO_POINT_USING_NITROGEN == 85
MANUALLY_SET_ZERO_POINT == 117
SET_PRESSURE_AND_CONCENTRATION_COMPENSATION == 83
GET_PRESSURE_AND_CONCENTRATION_COMPENSATION == 115
SENSOR_INFO == 89
CO2_CURSOR == 9
FIELD_WIDTH == 5
EXPLORIR_ERR_INVALID_MODE == 0
EXPLORIR_ERR_TIMEOUT == 1
EXPLORIR_ERR_UNRECOGNIZED_COMMAND == 2
EXPLORIR_ERR_INVALID_INPUT == 3
EXPLORIR_SUCCESS == 4
EXPLORIR_MODE_COMMAND == 0
EXPLORIR_MODE_STREAMING == 1
EXPLORIR_MODE_POLLING == 2
EXPLORIR_MODE_DEFAULT == EXPLORIR_MODE_COMMAND
AUTO_ZERO == 64
SET_TYPE_AND_NUM_OF_DATA_OUTPUTS == 77
GET_NUM_OF_OUTPUT_DATA_FIELDS == 81
MAX_DIGITAL_FILTER == 65365
MIN_DIGITAL_FILTER == 0
DIGITAL_FILTER_DEFAULT == 16
FILTERED_MASK == 4
UNFILTERED_MASK == 2
NUL == 0
RESPONSE_TIMEOUT == 10000000
\* char buf[8] of the commands that print a number
SCRATCH_SIZE == 8

U16 == 65536
INT_HI == 32768

(***************************************************************************)
(* Bounds of the model                                                     *)
(***************************************************************************)
MaxCalls == 2        \* scanner calls per behaviour
MaxOverrun == 8      \* bytes of memory modelled after the buffer
MaxStackDigits == 1  \* digit bytes that may follow a 5-byte field copy on the stack
MaxRequests == 2     \* request operations per behaviour
MaxCommands == 1     \* scanner calls after which no further operation is called
MaxTicks == 2        \* iterations of the wait loop followed one by one

BufIdx == 0 .. (UART_RX_BUF_SIZE - 1)
ZeroBuf == [k \in BufIdx |-> 0]

ZeroPointTags == { FINE_TUNE_ZERO_POINT, SET_ZERO_POINT_USING_FRESH_AIR,
                   SET_ZERO_POINT_USING_KNOWN_GAS, SET_ZERO_POINT_USING_NITROGEN,
                   MANUALLY_SET_ZERO_POINT }
DigitalFilterTags == { SET_DIGITAL_FILTER, GET_DIGITAL_FILTER }
CompensationTags == { SET_PRESSURE_AND_CONCENTRATION_COMPENSATION,
                      GET_PRESSURE_AND_CONCENTRATION_COMPENSATION }
\* the cases of the switch that leave through "goto EndWhile", 'z' excepted
StopTags == { SCALING_FACTOR, OPERATION_MODE } \cup DigitalFilterTags
              \cup ZeroPointTags \cup CompensationTags
FieldTags == StopTags \cup { FILTERED_CO2_MEASUREMENT, UNFILTERED_CO2_MEASUREMENT }

(***************************************************************************)
(* Reply text, as byte sequences                                           *)
(***************************************************************************)
Digit(n) == CHAR_0 + n
\* a raw value as the sensor prints it: 5 decimal digits, zero padded
Pad5(v) == << Digit((v \div 10000) % 10), Digit((v \div 1000) % 10),
              Digit((v \div 100) % 10), Digit((v \div 10) % 10), Digit(v % 10) >>
RECURSIVE Dec(_)
\* decimal digits without leading zeros ("%d")
Dec(v) == IF v < 10 THEN << Digit(v) >> ELSE Dec(v \div 10) \o << Digit(v % 10) >>
Rep(b, n) == [k \in 1 .. n |-> b]
CRLF == << CR, TERMINATE >>
Field(tag, v) == << tag, SPACE >> \o Pad5(v)

(***************************************************************************)
(* The C library's atoi: optional white space, optional sign, digits up to *)
(* the first byte that is no digit (text is the bytes atoi gets to see).   *)
(***************************************************************************)
IsSpace(b) == b \in { 9, 10, 11, 12, 13, 32 }
IsDigit(b) == b \in CHAR_0 .. (CHAR_0 + 9)
RECURSIVE SkipSpace(_, _)
SkipSpace(text, k) ==
    IF k <= Len(text) /\ IsSpace(text[k]) THEN SkipSpace(text, k + 1) ELSE k
RECURSIVE Digits(_, _, _)
Digits(text, k, acc) ==
    IF k <= Len(text) /\ IsDigit(text[k])
    THEN Digits(text, k + 1, acc * 10 + (text[k] - CHAR_0))
    ELSE acc
atoi(text) ==
    LET k == SkipSpace(text, 1) IN
    IF k > Len(text) THEN 0
    ELSE IF text[k] = 45 THEN 0 - Digits(text, k + 1, 0)
    ELSE IF text[k] = 43 THEN Digits(text, k + 1, 0)
    ELSE Digits(text, k, 0)

\* The 5-byte local array the field is copied into has no room for a NUL
\* when all 5 bytes are digits: atoi then runs on into the stack.  The
\* bytes it can find there are a run of digits (possibly empty) and then a
\* byte that is no digit.
StackTails == UNION { [1 .. n -> { Digit(7) }] : n \in 0 .. MaxStackDigits }

(***************************************************************************)
(* 32-bit values are pairs <<hi, lo>> of 16-bit halves (value hi * 2^16 +  *)
(* lo), so that values up to 2^32 - 1 and their wrap-around are exact.     *)
(***************************************************************************)
\* conversion of an int to uint32_t (a negative int wraps)
U32Of(x) == << (x \div U16) % U16, x % U16 >>
\* conversion of an int to uint16_t
ToU16(x) == x % U16
\* the exact product a * sf for a >= 0, as <<hi, lo>> with hi not reduced
MulWide(a, sf) ==
    LET x == (a \div 1024) * sf
        y == (a % 1024) * sf
        low == (x % 64) * 1024 + y
    IN  << (x \div 64) + (low \div U16), low % U16 >>
\* two's complement of a magnitude <<hi, lo>>, as uint32_t
Negate(m) == IF m[2] = 0 THEN << (U16 - m[1]) % U16, 0 >>
             ELSE << (U16 - 1 - m[1]) % U16, U16 - m[2] >>
INT_MAX_U32 == << INT_HI - 1, U16 - 1 >>
\* atoi(...) * scaling_factor is a multiplication of two ints, assigned to a
\* uint32_t.  Its overflow is undefined: the builds wrap or keep the largest int.
ScaledOutcomes(raw, sf) ==
    LET m == MulWide(IF raw < 0 THEN 0 - raw ELSE raw, sf)
        wrapped == IF raw < 0 THEN Negate(m) ELSE << m[1] % U16, m[2] >>
        fits == IF raw < 0 THEN m[1] < INT_HI \/ m = << INT_HI, 0 >>
                ELSE m[1] < INT_HI
    IN  IF fits THEN { wrapped } ELSE { wrapped, INT_MAX_U32 }

(***************************************************************************)
(* Memory as the scanner reads it                                          *)
(***************************************************************************)
MemLimit == UART_RX_BUF_SIZE + Len(beyond)
Mem(k) == IF k < UART_RX_BUF_SIZE THEN explorir_data[k]
          ELSE beyond[k - UART_RX_BUF_SIZE + 1]
RECURSIVE SkipZeros(_)
\* while(explorir_data[i] == '0') i++;
SkipZeros(k) == IF k < MemLimit /\ Mem(k) = CHAR_0 THEN SkipZeros(k + 1) ELSE k
\* i += 2, then the leading zeros are skipped: where the 5 bytes are copied from
FieldStart(at) == SkipZeros(at + 2)
\* memcpy(x_data, &explorir_data[i], 5)
Window(from) == [n \in 1 .. FIELD_WIDTH |-> Mem(from + n - 1)]
\* the highest address one iteration at cursor 'at' reads
LastRead(at) ==
    IF at >= MemLimit THEN at
    ELSE IF Mem(at) \in FieldTags THEN FieldStart(at) + FIELD_WIDTH - 1
    ELSE at
\* the values atoi can return for the field of the tag at 'at'
FieldValues(at) ==
    { atoi(Window(FieldStart(at)) \o tail) : tail \in StackTails }

Max(a, b) == IF a >= b THEN a ELSE b
Call(name, args) == [ name |-> name, args |-> args ]
NoCall == Call("none", << >>)
\* the flag as the call found it, whether a reply was delivered during the
\* call, and how the loop was left ("none", "notified", "timeout")
Wait(entry, delivered, outcome) ==
    [ entry |-> entry, delivered |-> delivered, outcome |-> outcome ]
NoWait == Wait(FALSE, FALSE, "none")
HandlerFields ==
    [ err_code |-> err_code, scaling_factor |-> scaling_factor,
      current_filtered_co2 |-> current_filtered_co2,
      current_unfiltered_co2 |-> current_unfiltered_co2,
      digital_filter |-> digital_filter, zero_point |-> zero_point,
      pressure_and_concentration_compensation |->
          pressure_and_concentration_compensation,
      current_mode |-> current_mode ]

(***************************************************************************)
(* Inputs: the replies the host delivers                                   *)
(***************************************************************************)
RawValues == { 0, 100, 99999 }
ScalingFactors == { 1, 65535 }
\* "Z #####\r\n", the reply shape the header documents
FilteredReply(v) == Field(FILTERED_CO2_MEASUREMENT, v) \o CRLF
\* a filtered field immediately followed by an unfiltered field
PackedReply(vf, vu) ==
    Field(FILTERED_CO2_MEASUREMENT, vf) \o Field(UNFILTERED_CO2_MEASUREMENT, vu) \o CRLF
\* " Z ##### z #####\r\n": both fields, each led by a space (the second tag at offset 9)
BothReply(vf, vu) ==
    << SPACE >> \o Field(FILTERED_CO2_MEASUREMENT, vf) \o << SPACE >>
        \o Field(UNFILTERED_CO2_MEASUREMENT, vu) \o CRLF
\* a field led by a space, then a second field whose tag is at offset 9
TwoFields(t1, v1, t2, v2) ==
    << SPACE >> \o Field(t1, v1) \o << SPACE >> \o Field(t2, v2) \o CRLF
\* a filtered field whose tag is at offset 9
LateFiltered(v) == Rep(SPACE, CO2_CURSOR) \o FilteredReply(v)
\* a field of a stopping tag followed by a filtered field
StopThenMore(t) == Field(t, 1) \o << SPACE >> \o FilteredReply(2)
\* "A " + k zeros + the decimal digits of v
FilterReply(k, v) ==
    << SET_DIGITAL_FILTER, SPACE >> \o Rep(CHAR_0, k) \o Dec(v) \o CRLF

ScanReplies ==
    { FilteredReply(v) : v \in RawValues }
    \cup { << SPACE >> \o FilteredReply(100) }
    \cup { PackedReply(100, 50), BothReply(100, 50), LateFiltered(100) }
    \cup { TwoFields(UNFILTERED_CO2_MEASUREMENT, 50, SET_DIGITAL_FILTER, 16),
           TwoFields(FILTERED_CO2_MEASUREMENT, 100, SET_DIGITAL_FILTER, 16) }
    \cup { StopThenMore(t) : t \in StopTags }
    \cup { FilterReply(k, v) : k \in 0 .. 4, v \in { 0, 16 } }
    \cup { FilterReply(0, 12345) }
\* first line of the sensor-info text: no field in it
InfoLine == << SENSOR_INFO, 44, Digit(1) >> \o CRLF
ReqReplies ==
    { FilteredReply(100), << SPACE >> \o FilteredReply(100), BothReply(100, 50), InfoLine }
    \cup { Field(t, 1) \o CRLF :
             t \in { SCALING_FACTOR, OPERATION_MODE, GET_DIGITAL_FILTER,
                     SET_ZERO_POINT_USING_FRESH_AIR,
                     GET_PRESSURE_AND_CONCENTRATION_COMPENSATION } }

\* what can lie after the buffer: zero bytes, a line feed, a field
Beyonds ==
    { [k \in 1 .. MaxOverrun |-> 0],
      [k \in 1 .. MaxOverrun |-> IF k = 2 THEN TERMINATE ELSE 0],
      [k \in 1 .. MaxOverrun |->
          IF k = 1 THEN SET_DIGITAL_FILTER ELSE IF k = 2 THEN SPACE
          ELSE IF k = 3 THEN Digit(1) ELSE 0] }

(***************************************************************************)
(* State after construction: a zeroed handler whose scaling factor has     *)
(* been read from the sensor                                               *)
(***************************************************************************)
Init ==
    /\ explorir_data = ZeroBuf
    /\ err_code = EXPLORIR_ERR_INVALID_MODE
    /\ scaling_factor \in ScalingFactors
    /\ current_filtered_co2 = U32Of(0)
    /\ current_unfiltered_co2 = U32Of(0)
    /\ digital_filter = U32Of(0)
    /\ zero_point = U32Of(0)
    /\ pressure_and_concentration_compensation = U32Of(0)
    /\ current_mode = EXPLORIR_MODE_COMMAND
    /\ explorir_complete_uart_rx = FALSE
    /\ pc = "idle"
    /\ i = 0
    /\ beyond = << >>
    /\ op = "none"
    /\ remaining = 0
    /\ txlog = << >>
    /\ replyPending = FALSE
    /\ buf0 = ZeroBuf
    /\ pre = HandlerFields
    /\ maxRead = -1
    /\ parsed = { }
    /\ revisit = FALSE
    /\ calls = 0
    /\ ret = "none"
    /\ pending = FALSE
    /\ call = NoCall
    /\ timer = 0
    /\ waited = NoWait

(***************************************************************************)
(* explorir_update_data                                                    *)
(***************************************************************************)
\* memcpy(explorir_data, p_response, size)
Copied(resp, size) ==
    [k \in BufIdx |-> IF k < size THEN resp[k + 1] ELSE explorir_data[k]]

Copy(resp) ==
    /\ explorir_data' = Copied(resp, Len(resp))
    /\ pending' = TRUE
    /\ UNCHANGED << fields, pc, i, beyond, op, remaining, txlog, hist, calls, ret, call, waitvars >>

\* the host hands over a reply it received outside any request
UpdateData(resp) ==
    /\ pc \in { "idle", "returned" }
    /\ ~pending
    /\ Copy(resp)
    /\ UNCHANGED << explorir_complete_uart_rx, replyPending >>

\* the host's receive handler hands over the reply to the frame transmitted
\* last and raises the completion flag
ReplyArrives(resp) ==
    /\ replyPending
    /\ pc \in { "sent", "idle", "returned" }
    /\ Copy(resp)
    /\ explorir_complete_uart_rx' = TRUE
    /\ replyPending' = FALSE

(***************************************************************************)
(* explorir_process_response                                               *)
(***************************************************************************)
\* uint16_t i = 0; the history of the call starts
EnterScan ==
    /\ pc' = "scan"
    /\ i' = 0
    /\ beyond' = << >>
    /\ buf0' = explorir_data
    /\ pre' = HandlerFields
    /\ maxRead' = -1
    /\ parsed' = { }
    /\ revisit' = FALSE
    /\ calls' = calls + 1
    /\ pending' = FALSE

\* a direct call of the scanner by the host
ProcessResponse ==
    /\ pc \in { "idle", "returned" }
    /\ op = "none"
    /\ calls < MaxCalls
    /\ EnterScan
    /\ UNCHANGED << explorir_data, fields, explorir_complete_uart_rx, op,
                    remaining, txlog, replyPending, ret, call, waitvars >>

\* the iteration at the cursor reads modelled memory only
InMemory(at) == LastRead(at) < MemLimit
\* the buffer left as it is
Cleared_skipped == explorir_data
\* memset(explorir_data, 0, sizeof(explorir_data))
Cleared == ZeroBuf
\* EndWhile: the buffer is cleared and the function returns
EndWhile ==
    /\ explorir_data' = Cleared
    /\ pc' = "returned"

\* what every iteration that parses a field does: i += 2, skip '0's, memcpy
ParseField ==
    /\ pc = "scan"
    /\ InMemory(i)
    /\ parsed' = parsed \cup { Mem(i) }
    /\ maxRead' = Max(maxRead, LastRead(i))
    /\ UNCHANGED << err_code, explorir_complete_uart_rx, beyond, op, remaining,
                    txlog, replyPending, buf0, pre, calls, ret, call, waitvars, pending >>

\* while(explorir_data[i] != TERMINATE) is false
ScanTerminate ==
    /\ pc = "scan"
    /\ InMemory(i)
    /\ Mem(i) = TERMINATE
    /\ EndWhile
    /\ maxRead' = Max(maxRead, i)
    /\ UNCHANGED << fields, explorir_complete_uart_rx, i, beyond, op, remaining,
                    txlog, replyPending, buf0, pre, parsed, revisit, calls, ret, call, waitvars, pending >>

\* case SCALING_FACTOR
ScanScalingFactor ==
    /\ ParseField
    /\ Mem(i) = SCALING_FACTOR
    /\ \E raw \in FieldValues(i) : scaling_factor' = ToU16(raw)
    /\ i' = FieldStart(i)
    /\ EndWhile
    /\ UNCHANGED << current_filtered_co2, current_unfiltered_co2, digital_filter,
                    zero_point, pressure_and_concentration_compensation,
                    current_mode, revisit >>

\* the filtered case leaving through EndWhile like the other cases
ScanFilteredCo2_stops ==
    /\ ParseField
    /\ Mem(i) = FILTERED_CO2_MEASUREMENT
    /\ \E raw \in FieldValues(i) :
           current_filtered_co2' \in ScaledOutcomes(raw, scaling_factor)
    /\ i' = FieldStart(i)
    /\ EndWhile
    /\ UNCHANGED << scaling_factor, current_unfiltered_co2, digital_filter,
                    zero_point, pressure_and_concentration_compensation,
                    current_mode, revisit >>

\* case FILTERED_CO2_MEASUREMENT
ScanFilteredCo2 ==
    /\ ParseField
    /\ Mem(i) = FILTERED_CO2_MEASUREMENT
    /\ \E raw \in FieldValues(i) :
           current_filtered_co2' \in ScaledOutcomes(raw, scaling_factor)
    /\ i' = CO2_CURSOR
    /\ revisit' = (revisit \/ CO2_CURSOR <= i)
    /\ pc' = "scan"
    /\ UNCHANGED << explorir_data, scaling_factor, current_unfiltered_co2,
                    digital_filter, zero_point,
                    pressure_and_concentration_compensation, current_mode >>

\* case UNFILTERED_CO2_MEASUREMENT
ScanUnfilteredCo2 ==
    /\ ParseField
    /\ Mem(i) = UNFILTERED_CO2_MEASUREMENT
    /\ \E raw \in FieldValues(i) :
           current_unfiltered_co2' \in ScaledOutcomes(raw, scaling_factor)
    /\ i' = FieldStart(i)
    /\ EndWhile
    /\ UNCHANGED << scaling_factor, current_filtered_co2, digital_filter,
                    zero_point, pressure_and_concentration_compensation,
                    current_mode, revisit >>

\* the mode case ending in "break" instead of "goto EndWhile"
ScanOperationMode_breaks ==
    /\ ParseField
    /\ Mem(i) = OPERATION_MODE
    /\ \E raw \in FieldValues(i) : current_mode' = raw
    /\ i' = FieldStart(i)
    /\ pc' = "scan"
    /\ UNCHANGED << explorir_data, scaling_factor, current_filtered_co2,
                    current_unfiltered_co2, digital_filter, zero_point,
                    pressure_and_concentration_compensation, revisit >>

\* case OPERATION_MODE
ScanOperationMode ==
    /\ ParseField
    /\ Mem(i) = OPERATION_MODE
    /\ \E raw \in FieldValues(i) : current_mode' = raw
    /\ i' = FieldStart(i)
    /\ EndWhile
    /\ UNCHANGED << scaling_factor, current_filtered_co2, current_unfiltered_co2,
                    digital_filter, zero_point,
                    pressure_and_concentration_compensation, revisit >>

\* case SET_DIGITAL_FILTER: case GET_DIGITAL_FILTER
ScanDigitalFilter ==
    /\ ParseField
    /\ Mem(i) \in DigitalFilterTags
    /\ \E raw \in FieldValues(i) : digital_filter' = U32Of(raw)
    /\ i' = FieldStart(i)
    /\ EndWhile
    /\ UNCHANGED << scaling_factor, current_filtered_co2, current_unfiltered_co2,
                    zero_point, pressure_and_concentration_compensation,
                    current_mode, revisit >>

\* case FINE_TUNE_ZERO_POINT ... case MANUALLY_SET_ZERO_POINT
ScanZeroPoint ==
    /\ ParseField
    /\ Mem(i) \in ZeroPointTags
    /\ \E raw \in FieldValues(i) : zero_point' = U32Of(raw)
    /\ i' = FieldStart(i)
    /\ EndWhile
    /\ UNCHANGED << scaling_factor, current_filtered_co2, current_unfiltered_co2,
                    digital_filter, pressure_and_concentration_compensation,
                    current_mode, revisit >>

\* the compensation case storing the value in zero_point as well
ScanCompensation_both ==
    /\ ParseField
    /\ Mem(i) \in CompensationTags
    /\ \E raw \in FieldValues(i) :
           /\ pressure_and_concentration_compensation' = U32Of(raw)
           /\ zero_point' = U32Of(raw)
    /\ i' = FieldStart(i)
    /\ EndWhile
    /\ UNCHANGED << scaling_factor, current_filtered_co2, current_unfiltered_co2,
                    digital_filter, current_mode, revisit >>

\* case SET_/GET_PRESSURE_AND_CONCENTRATION_COMPENSATION
ScanCompensation ==
    /\ ParseField
    /\ Mem(i) \in CompensationTags
    /\ \E raw \in FieldValues(i) :
           pressure_and_concentration_compensation' = U32Of(raw)
    /\ i' = FieldStart(i)
    /\ EndWhile
    /\ UNCHANGED << scaling_factor, current_filtered_co2, current_unfiltered_co2,
                    digital_filter, zero_point, current_mode, revisit >>

\* i++ of case SPACE and of default
Advance ==
    /\ pc = "scan"
    /\ InMemory(i)
    /\ i' = i + 1
    /\ maxRead' = Max(maxRead, i)
    /\ UNCHANGED << explorir_data, fields, explorir_complete_uart_rx, pc, beyond,
                    op, remaining, txlog, replyPending, buf0, pre, parsed,
                    revisit, calls, ret, call, waitvars, pending >>

\* case SPACE
ScanSpace == Advance /\ Mem(i) = SPACE

\* the default case reporting the byte it does not know in err_code
ScanDefault_reports ==
    /\ pc = "scan"
    /\ InMemory(i)
    /\ Mem(i) \notin (FieldTags \cup { TERMINATE, SPACE })
    /\ i' = i + 1
    /\ maxRead' = Max(maxRead, i)
    /\ err_code' = EXPLORIR_ERR_UNRECOGNIZED_COMMAND
    /\ UNCHANGED << explorir_data, scaling_factor, current_filtered_co2,
                    current_unfiltered_co2, digital_filter, zero_point,
                    pressure_and_concentration_compensation, current_mode,
                    explorir_complete_uart_rx, pc, beyond, op, remaining, txlog,
                    replyPending, buf0, pre, parsed, revisit, calls, ret, call, waitvars, pending >>

\* default
ScanDefault == Advance /\ Mem(i) \notin (FieldTags \cup { TERMINATE, SPACE })

\* The iteration reads past explorir_data[127]: what it finds there is
\* whatever the memory after the buffer holds.
ReadPastBuffer ==
    /\ pc = "scan"
    /\ beyond = << >>
    /\ ~InMemory(i)
    /\ beyond' \in Beyonds
    /\ maxRead' = Max(maxRead, UART_RX_BUF_SIZE)
    /\ UNCHANGED << explorir_data, fields, explorir_complete_uart_rx, pc, i, op,
                    remaining, txlog, replyPending, buf0, pre, parsed, revisit,
                    calls, ret, call, waitvars, pending >>

\* The scan runs on past the memory the model describes.
ScanOverrun ==
    /\ pc = "scan"
    /\ beyond # << >>
    /\ ~InMemory(i)
    /\ pc' = "overrun"
    /\ maxRead' = Max(maxRead, MemLimit)
    /\ UNCHANGED << explorir_data, fields, explorir_complete_uart_rx, i, beyond,
                    op, remaining, txlog, replyPending, buf0, pre, parsed,
                    revisit, calls, ret, call, waitvars, pending >>

ScanStep ==
    \/ ScanTerminate
    \/ ScanScalingFactor
    \/ ScanFilteredCo2
    \/ ScanUnfilteredCo2
    \/ ScanOperationMode
    \/ ScanDigitalFilter
    \/ ScanZeroPoint
    \/ ScanCompensation
    \/ ScanSpace
    \/ ScanDefault
    \/ ReadPastBuffer
    \/ ScanOverrun

(***************************************************************************)
(* The scanner called by the host on delivered replies                     *)
(***************************************************************************)
Next ==
    \/ \E resp \in ScanReplies : UpdateData(resp)
    \/ ProcessResponse
    \/ ScanStep

Spec == Init /\ [][Next]_vars

(***************************************************************************)
(* Request operations: transmit, then scan                                 *)
(***************************************************************************)
\* explorir_handler->explorir_tx(msg, size)
Transmit(name, msg, scans) ==
    /\ pc \in { "idle", "returned" }
    /\ op = "none"
    /\ Len(txlog) < MaxRequests
    /\ txlog' = Append(txlog, msg)
    /\ replyPending' = TRUE
    /\ op' = name
    /\ remaining' = scans
    /\ pc' = "sent"
    /\ UNCHANGED << explorir_data, fields, explorir_complete_uart_rx, i, beyond,
                    hist, calls, ret, call, waitvars, pending >>

\* explorir_request_filtered_co2, up to the return of explorir_tx
RequestFilteredCo2 ==
    Transmit("explorir_request_filtered_co2",
             << FILTERED_CO2_MEASUREMENT, CR, TERMINATE >>, 1)

\* explorir_request_sensor_info, up to the return of explorir_tx
RequestSensorInfo ==
    Transmit("explorir_request_sensor_info", << SENSOR_INFO, CR, TERMINATE >>, 2)

\* the operation calls explorir_process_response (no wait comes before it)
RequestScan ==
    /\ op # "none"
    /\ pc \in { "sent", "returned" }
    /\ remaining > 0
    /\ EnterScan
    /\ remaining' = remaining - 1
    /\ UNCHANGED << explorir_data, fields, explorir_complete_uart_rx, op, txlog,
                    replyPending, ret, call, waitvars >>

\* return explorir_handler->err_code
RequestReturn ==
    /\ op # "none"
    /\ pc = "returned"
    /\ remaining = 0
    /\ ret' = err_code
    /\ op' = "none"
    /\ pc' = "idle"
    /\ UNCHANGED << explorir_data, fields, explorir_complete_uart_rx, i, beyond,
                    remaining, txlog, replyPending, hist, calls, pending, call, waitvars >>

NextReq ==
    \/ RequestFilteredCo2
    \/ RequestSensorInfo
    \/ RequestScan
    \/ RequestReturn
    \/ \E resp \in ReqReplies : ReplyArrives(resp)
    \/ ScanStep

SpecReq == Init /\ [][NextReq]_vars

(***************************************************************************)
(* Properties                                                              *)
(***************************************************************************)
\* the buffer as it is after 'reply' was copied into a cleared buffer
Loaded(reply) == [k \in BufIdx |-> IF k < Len(reply) THEN reply[k + 1] ELSE 0]
\* the current call of the scanner started on that buffer
Holds(reply) ==
    \A k \in BufIdx : buf0[k] = (IF k < Len(reply) THEN reply[k + 1] ELSE 0)
HasLineFeed(buf) == \E k \in BufIdx : buf[k] = TERMINATE
Returned == pc = "returned" /\ calls > 0

\* C1: when the buffer holds a line-feed terminated reply (the documented
\* "Z #####\r\n" included), the call reads no address past explorir_data[127].
C1_ReadsInsideBuffer ==
    HasLineFeed(buf0) => maxRead < UART_RX_BUF_SIZE

\* C2: when the buffer holds a line feed, the cursor never comes back to an
\* index it has passed and stays inside the buffer, so the scan ends within
\* 128 iterations (a 'Z' at an index >= 9 included).
C2_ScanTerminates ==
    HasLineFeed(buf0) =>
        /\ ~revisit
        /\ pc = "scan" => i < UART_RX_BUF_SIZE
        /\ pc # "overrun"

\* C3: a call on "Z " + zero_pad5(v) + "\r\n" leaves current_filtered_co2
\* equal to the exact product v * scaling_factor.
C3_FilteredIsProduct ==
    \A v \in RawValues :
        (Returned /\ Holds(FilteredReply(v)))
            => current_filtered_co2 = MulWide(v, pre.scaling_factor)

\* C4: one call on "Z " + zero_pad5(vf) + "z " + zero_pad5(vu) + "\r\n"
\* updates both readings: filtered = vf * s and unfiltered = vu * s.
C4_PackedUpdatesBoth ==
    (Returned /\ Holds(PackedReply(100, 50)))
        => /\ current_filtered_co2 = MulWide(100, pre.scaling_factor)
           /\ current_unfiltered_co2 = MulWide(50, pre.scaling_factor)

\* C5 (as claimed): after a 'Z' or a 'z' field has been parsed and stored the
\* cursor is set to 9 and the scan loop continues.
C5_Co2ContinuesAt9 ==
    [][ (pc = "scan" /\ InMemory(i)
           /\ Mem(i) \in { FILTERED_CO2_MEASUREMENT, UNFILTERED_CO2_MEASUREMENT })
        => (i' = 9 /\ pc' = "scan") ]_vars

\* C5 (amended): after a 'Z' field has been parsed and stored the cursor is
\* set to 9 and the scan continues on the unchanged buffer, so that a field
\* whose tag is at offset 9 is parsed next in the same call; after a 'z'
\* field the scan stops.
C5_FilteredContinuesAt9 ==
    [][ (pc = "scan" /\ InMemory(i)) =>
          /\ Mem(i) = FILTERED_CO2_MEASUREMENT =>
                 (i' = 9 /\ pc' = "scan" /\ explorir_data' = explorir_data)
          /\ Mem(i) = UNFILTERED_CO2_MEASUREMENT => pc' = "returned"
          /\ (i = 9 /\ FILTERED_CO2_MEASUREMENT \in parsed /\ Mem(i) \in FieldTags)
                 => Mem(i) \in parsed' ]_vars

\* a filtered field, then a digital-filter field at offset 9: both parsed by one call
C5_Witness ==
    /\ Returned
    /\ Holds(TwoFields(FILTERED_CO2_MEASUREMENT, 100, SET_DIGITAL_FILTER, 16))
    /\ parsed = { FILTERED_CO2_MEASUREMENT, SET_DIGITAL_FILTER }
    /\ digital_filter = U32Of(16)

\* C6: once a field of a tag other than the CO2 tags has been parsed and
\* stored, the call scans no further: no iteration follows it, and of a
\* buffer that begins with such a field (whatever follows it, a filtered
\* field included) only that field is taken and nothing after it is read.
C6_StopTagsEndScan ==
    /\ pc = "scan" => parsed \cap StopTags = { }
    /\ (Returned /\ buf0[0] \in StopTags)
           => /\ parsed = { buf0[0] }
              /\ current_filtered_co2 = pre.current_filtered_co2
              /\ current_unfiltered_co2 = pre.current_unfiltered_co2
              /\ \E from \in 2 .. 7 : /\ maxRead = from + FIELD_WIDTH - 1
                                      /\ \A k \in 2 .. (from - 1) : buf0[k] = CHAR_0

\* a mode field followed by a filtered field: the mode is stored and nothing
\* after the 5 bytes copied from the mode field (indices 6..10) is read
C6_Witness ==
    /\ Returned
    /\ Holds(StopThenMore(OPERATION_MODE))
    /\ parsed = { OPERATION_MODE }
    /\ current_mode = 1
    /\ maxRead = 10

C9_BufferClearedOnReturn ==
    (Returned /\ ~pending) => explorir_data = ZeroBuf

\* the call on " Z 00100\r\n" has returned at the line feed at index 9
C9_Witness ==
    /\ Returned
    /\ ~pending
    /\ Holds(<< SPACE >> \o FilteredReply(100))
    /\ parsed = { FILTERED_CO2_MEASUREMENT }
    /\ maxRead = 9
    /\ explorir_data = ZeroBuf

\* C10: a request operation scans the buffer only after the reply to the
\* frame it transmitted has been delivered.
C10_ScanAfterReply ==
    (pc = "scan" /\ op # "none") => ~replyPending

(***************************************************************************)
(* Request operations on a handler whose status field holds any code: the  *)
(* driver never writes it before the first request, so it is what the host *)
(* or an earlier request left there                                        *)
(***************************************************************************)
StatusCodes == { EXPLORIR_ERR_INVALID_MODE, EXPLORIR_ERR_TIMEOUT, EXPLORIR_SUCCESS }

InitStatus ==
    /\ explorir_data = ZeroBuf
    /\ err_code \in StatusCodes
    /\ scaling_factor = 1
    /\ current_filtered_co2 = U32Of(0)
    /\ current_unfiltered_co2 = U32Of(0)
    /\ digital_filter = U32Of(0)
    /\ zero_point = U32Of(0)
    /\ pressure_and_concentration_compensation = U32Of(0)
    /\ current_mode = EXPLORIR_MODE_COMMAND
    /\ explorir_complete_uart_rx = FALSE
    /\ pc = "idle"
    /\ i = 0
    /\ beyond = << >>
    /\ op = "none"
    /\ remaining = 0
    /\ txlog = << >>
    /\ replyPending = FALSE
    /\ buf0 = ZeroBuf
    /\ pre = HandlerFields
    /\ maxRead = -1
    /\ parsed = { }
    /\ revisit = FALSE
    /\ calls = 0
    /\ ret = "none"
    /\ pending = FALSE
    /\ call = NoCall
    /\ timer = 0
    /\ waited = NoWait

SpecStatus == InitStatus /\ [][NextReq]_vars

\* a frame was transmitted and the operation that sent it has returned
RequestReturned == pc = "idle" /\ op = "none" /\ txlog # << >>
\* the frame transmitted last
LastFrame == txlog[Len(txlog)]

\* C11: when explorir_request_filtered_co2 has returned and no reply to its
\* frame was delivered, it has returned EXPLORIR_ERR_TIMEOUT and every field
\* of the handler has the value it had before the call.
C11_TimeoutReturned ==
    (RequestReturned /\ replyPending
        /\ LastFrame = << FILTERED_CO2_MEASUREMENT, CR, TERMINATE >>)
        => /\ ret = EXPLORIR_ERR_TIMEOUT
           /\ HandlerFields = pre

\* C12: when a request operation has returned after the reply to its frame
\* was delivered and scanned, it has returned EXPLORIR_SUCCESS, whatever the
\* status field held before.
C12_SuccessReturned ==
    (RequestReturned /\ ~replyPending /\ ~pending) => ret = EXPLORIR_SUCCESS

ModeArgs == { EXPLORIR_MODE_COMMAND, EXPLORIR_MODE_STREAMING, EXPLORIR_MODE_POLLING, 3 }
\* uint16_t filter
FilterArgs == { 0, DIGITAL_FILTER_DEFAULT, MAX_DIGITAL_FILTER,
                MAX_DIGITAL_FILTER + 1, U16 - 1 }
\* uint8_t initial, uint8_t regular
IntervalArgs == { 0, 9, 10 }
\* uint32_t arguments, as <<hi, lo>>
IntArgs == { U32Of(0), U32Of(9999999), U32Of(10000000), << U16 - 1, U16 - 1 >> }

\* the number printed as by "%05d"
sprintf_05d(v) == Pad5(v)
\* sprintf(buf, "%d", v): the characters written before the NUL
sprintf_d(v) == IF v < 0 THEN << 45 >> \o Dec(0 - v) ELSE Dec(v)
\* "%d" reads the 32 bits of a uint32_t argument as an int
AsInt(x) == IF x[1] >= INT_HI THEN (x[1] - U16) * U16 + x[2]
            ELSE x[1] * U16 + x[2]
\* msg[0] = tag; msg[1] = ' '; the str_size characters of buf; '\r'; '\n'
NumberFrame(tag, text) == << tag, SPACE >> \o text \o CRLF
\* the mask digit one place too far left
MaskFrame_shifted(mask) ==
    << SET_TYPE_AND_NUM_OF_DATA_OUTPUTS, SPACE, Digit(0), Digit(0), Digit(0),
       Digit(mask), Digit(0), CR, TERMINATE, NUL >>
\* "M 0000d\r\n"
MaskFrame(mask) ==
    << SET_TYPE_AND_NUM_OF_DATA_OUTPUTS, SPACE, Digit(0), Digit(0), Digit(0),
       Digit(0), Digit(mask), CR, TERMINATE, NUL >>
\* the bytes explorir_tx(msg, size) is told to send
Handed(msg, size) == SubSeq(msg, 1, size)

\* explorir_handler->explorir_tx(msg, size) of the operation 'name'
Tx(name, args, msg, size, scans) ==
    /\ pc \in { "idle", "returned" }
    /\ op = "none"
    /\ calls < MaxCommands
    /\ call' = Call(name, args)
    /\ txlog' = << Handed(msg, size) >>
    /\ replyPending' = TRUE
    /\ op' = name
    /\ remaining' = scans
    /\ pc' = "sent"
    /\ UNCHANGED << explorir_data, fields, explorir_complete_uart_rx, i, beyond,
                    hist, calls, ret, pending, waitvars >>

\* return of an error code by the check of the arguments
Rejected(name, args, code) ==
    /\ pc \in { "idle", "returned" }
    /\ op = "none"
    /\ calls < MaxCommands
    /\ call' = Call(name, args)
    /\ ret' = code
    /\ UNCHANGED << explorir_data, fields, explorir_complete_uart_rx, pc, i,
                    beyond, op, remaining, txlog, replyPending, hist, calls,
                    pending, waitvars >>

\* sprintf has written past the end of buf: the build may detect the
\* smashed stack and stop the program before anything is sent
StackSmashed(name, args) ==
    /\ pc \in { "idle", "returned" }
    /\ op = "none"
    /\ calls < MaxCommands
    /\ call' = Call(name, args)
    /\ op' = name
    /\ pc' = "smashed"
    /\ UNCHANGED << explorir_data, fields, explorir_complete_uart_rx, i, beyond,
                    remaining, txlog, replyPending, hist, calls, ret, pending, waitvars >>

\* a command whose frame is a string literal
FixedCommand(name, msg, size, scans) == Tx(name, << >>, msg, size, scans)

\* msg[] = "Z\r\n"; explorir_tx(msg, 3)
explorir_request_filtered_co2 ==
    FixedCommand("explorir_request_filtered_co2",
                 << FILTERED_CO2_MEASUREMENT, CR, TERMINATE, NUL >>, 3, 1)

\* msg[] = "z\r\n"; explorir_tx(msg, 3)
explorir_request_unfiltered_co2 ==
    FixedCommand("explorir_request_unfiltered_co2",
                 << UNFILTERED_CO2_MEASUREMENT, CR, TERMINATE, NUL >>, 3, 1)

\* msg[] = ".\r\n"; explorir_tx(msg, 3)
explorir_request_scaling_factor ==
    FixedCommand("explorir_request_scaling_factor",
                 << SCALING_FACTOR, CR, TERMINATE, NUL >>, 3, 1)

\* msg[] = "a\r\n"; explorir_tx(msg, 3)
explorir_request_digital_filter ==
    FixedCommand("explorir_request_digital_filter",
                 << GET_DIGITAL_FILTER, CR, TERMINATE, NUL >>, 3, 1)

\* msg[] = "G\r\n"; explorir_tx(msg, 3)
explorir_set_zero_point_in_fresh_air ==
    FixedCommand("explorir_set_zero_point_in_fresh_air",
                 << SET_ZERO_POINT_USING_FRESH_AIR, CR, TERMINATE, NUL >>, 3, 1)

\* msg[] = "U\r\n"; explorir_tx(msg, 3)
explorir_set_zero_point_in_nitrogen ==
    FixedCommand("explorir_set_zero_point_in_nitrogen",
                 << SET_ZERO_POINT_USING_NITROGEN, CR, TERMINATE, NUL >>, 3, 1)

\* msg[] = "@ 0\r\n"; explorir_tx(msg, 5)
explorir_disable_auto_zeroing ==
    FixedCommand("explorir_disable_auto_zeroing",
                 << AUTO_ZERO, SPACE, Digit(0), CR, TERMINATE, NUL >>, 5, 1)

\* msg[] = "65222\r\n"; explorir_tx(msg, 7)
explorir_start_auto_zero ==
    FixedCommand("explorir_start_auto_zero",
                 << Digit(6), Digit(5), Digit(2), Digit(2), Digit(2), CR, TERMINATE, NUL >>, 7, 1)

\* msg[] = "@\r\n"; explorir_tx(msg, 3)
explorir_request_auto_zero_config ==
    FixedCommand("explorir_request_auto_zero_config",
                 << AUTO_ZERO, CR, TERMINATE, NUL >>, 3, 1)

\* msg[] = "s\r\n"; explorir_tx(msg, 3)
explorir_request_pressure_and_concetration_compensation ==
    FixedCommand("explorir_request_pressure_and_concetration_compensation",
                 << GET_PRESSURE_AND_CONCENTRATION_COMPENSATION, CR, TERMINATE, NUL >>, 3, 1)

\* msg[] = "M 00004\r\n"; explorir_tx(msg, 9)
explorir_set_output_data_filtered ==
    FixedCommand("explorir_set_output_data_filtered",
                 MaskFrame(FILTERED_MASK), 9, 1)

\* msg[] = "M 00002\r\n"; explorir_tx(msg, 9)
explorir_set_output_data_unfiltered ==
    FixedCommand("explorir_set_output_data_unfiltered",
                 MaskFrame(UNFILTERED_MASK), 9, 1)

\* msg[] = "M 00006\r\n"; explorir_tx(msg, 9)
explorir_set_output_data_all ==
    FixedCommand("explorir_set_output_data_all",
                 MaskFrame(FILTERED_MASK + UNFILTERED_MASK), 9, 1)

\* msg[] = "Q\r\n"; explorir_tx(msg, 3)
explorir_request_output_data_fields ==
    FixedCommand("explorir_request_output_data_fields",
                 << GET_NUM_OF_OUTPUT_DATA_FIELDS, CR, TERMINATE, NUL >>, 3, 1)

\* msg[] = "Y\r\n"; explorir_tx(msg, 3)
explorir_request_sensor_info ==
    FixedCommand("explorir_request_sensor_info",
                 << SENSOR_INFO, CR, TERMINATE, NUL >>, 3, 2)

\* the digit the switch writes to msg[2]
ModeDigit(mode) ==
    CASE mode = EXPLORIR_MODE_STREAMING -> Digit(1)
      [] mode = EXPLORIR_MODE_POLLING -> Digit(2)
      [] mode = EXPLORIR_MODE_COMMAND -> Digit(0)

\* msg[] = "K x\r\n"; switch(mode) ...; explorir_tx(msg, 5)
explorir_set_operation_mode(mode) ==
    IF mode \notin { EXPLORIR_MODE_STREAMING, EXPLORIR_MODE_POLLING,
                     EXPLORIR_MODE_COMMAND }
    THEN Rejected("explorir_set_operation_mode", << mode >>,
                  EXPLORIR_ERR_INVALID_MODE)
    ELSE Tx("explorir_set_operation_mode", << mode >>,
            << OPERATION_MODE, SPACE, ModeDigit(mode), CR, TERMINATE, NUL >>, 5, 1)

\* the digital filter sent whatever its value
explorir_set_digital_filter_unchecked(filter) ==
    LET text == sprintf_d(filter) IN
    Tx("explorir_set_digital_filter", << filter >>,
       NumberFrame(SET_DIGITAL_FILTER, text), 4 + Len(text), 1)

\* if(filter > MAX_DIGITAL_FILTER || filter < MIN_DIGITAL_FILTER) return ...;
\* sprintf(buf, "%d", filter); ... explorir_tx(msg, msg_size)
explorir_set_digital_filter(filter) ==
    IF filter > MAX_DIGITAL_FILTER \/ filter < MIN_DIGITAL_FILTER
    THEN Rejected("explorir_set_digital_filter", << filter >>,
                  EXPLORIR_ERR_INVALID_INPUT)
    ELSE LET text == sprintf_d(filter) IN
         Tx("explorir_set_digital_filter", << filter >>,
            NumberFrame(SET_DIGITAL_FILTER, text), 4 + Len(text), 1)

\* char buf[8]; sprintf(buf, "%d", value); ... explorir_tx(msg, msg_size):
\* more than 7 characters do not fit buf with their NUL
IntCommand(name, tag, value) ==
    LET text == sprintf_d(AsInt(value)) IN
    \/ Tx(name, << value >>, NumberFrame(tag, text), 4 + Len(text), 1)
    \/ /\ Len(text) + 1 > SCRATCH_SIZE
       /\ StackSmashed(name, << value >>)

explorir_set_zero_point_manually(zero_point_arg) ==
    IntCommand("explorir_set_zero_point_manually", MANUALLY_SET_ZERO_POINT,
               zero_point_arg)

explorir_set_zero_point_using_known_co2(co2_concentration) ==
    IntCommand("explorir_set_zero_point_using_known_co2",
               SET_ZERO_POINT_USING_KNOWN_GAS, co2_concentration)

explorir_set_pressure_and_concentration_compensation(value) ==
    IntCommand("explorir_set_pressure_and_concentration_compensation",
               SET_PRESSURE_AND_CONCENTRATION_COMPENSATION, value)

\* sprintf(&initial_char, "%d", initial) writes the digit and a NUL after
\* it, and so does the second sprintf for regular_char: when initial_char
\* lies right after regular_char the NUL of the second call replaces it.
\* msg[] = "@ x.0 x.0\r\n"; explorir_tx(msg, 10)
explorir_set_auto_zero_intervals(initial, regular) ==
    IF initial < 0 \/ initial > 9 \/ regular < 0 \/ regular > 9
    THEN Rejected("explorir_set_auto_zero_intervals", << initial, regular >>,
                  EXPLORIR_ERR_INVALID_INPUT)
    ELSE \E initial_char \in { Digit(initial), NUL } :
           Tx("explorir_set_auto_zero_intervals", << initial, regular >>,
              << AUTO_ZERO, SPACE, initial_char, 46, Digit(0), SPACE,
                 Digit(regular), 46, Digit(0), CR, TERMINATE, NUL >>, 10, 1)

\* the replies delivered to the commands: every family of tags, both CO2
\* fields in one line, a line that ends the scan at its line feed
CmdReplies ==
    { BothReply(100, 50), << SPACE >> \o FilteredReply(100) }
    \cup { Field(t, 1) \o CRLF :
             t \in { SCALING_FACTOR, OPERATION_MODE, GET_DIGITAL_FILTER,
                     SET_ZERO_POINT_USING_FRESH_AIR,
                     GET_PRESSURE_AND_CONCENTRATION_COMPENSATION } }

NextCmd ==
    \/ explorir_request_filtered_co2
    \/ explorir_request_unfiltered_co2
    \/ explorir_request_scaling_factor
    \/ explorir_request_digital_filter
    \/ explorir_set_zero_point_in_fresh_air
    \/ explorir_set_zero_point_in_nitrogen
    \/ explorir_disable_auto_zeroing
    \/ explorir_start_auto_zero
    \/ explorir_request_auto_zero_config
    \/ explorir_request_pressure_and_concetration_compensation
    \/ explorir_set_output_data_filtered
    \/ explorir_set_output_data_unfiltered
    \/ explorir_set_output_data_all
    \/ explorir_request_output_data_fields
    \/ explorir_request_sensor_info
    \/ \E mode \in ModeArgs : explorir_set_operation_mode(mode)
    \/ \E filter \in FilterArgs : explorir_set_digital_filter(filter)
    \/ \E x \in IntArgs : explorir_set_zero_point_manually(x)
    \/ \E x \in IntArgs : explorir_set_zero_point_using_known_co2(x)
    \/ \E x \in IntArgs : explorir_set_pressure_and_concentration_compensation(x)
    \/ \E initial \in IntervalArgs : \E regular \in IntervalArgs :
           explorir_set_auto_zero_intervals(initial, regular)
    \/ RequestScan
    \/ RequestReturn
    \/ \E resp \in CmdReplies : ReplyArrives(resp)
    \/ ScanStep

SpecCmd == Init /\ [][NextCmd]_vars

(***************************************************************************)
(* Properties of the command operations                                    *)
(***************************************************************************)
\* the call has arguments the operation's check refuses
InvalidCall(c) ==
    \/ /\ c.name = "explorir_set_operation_mode"
       /\ c.args[1] \notin { EXPLORIR_MODE_COMMAND, EXPLORIR_MODE_STREAMING,
                             EXPLORIR_MODE_POLLING }
    \/ /\ c.name = "explorir_set_digital_filter"
       /\ c.args[1] \notin 0 .. 65365
    \/ /\ c.name = "explorir_set_auto_zero_intervals"
       /\ (c.args[1] \notin 0 .. 9 \/ c.args[2] \notin 0 .. 9)
\* the frame of the operation called last, once it is sent
SentFrame == txlog[1]
\* what stands between "t " and "\r\n" in a frame
Payload(frame) == SubSeq(frame, 3, Len(frame) - 2)
\* tag, ' ', ..., '\r', '\n'
Framed(frame, tag) ==
    /\ Len(frame) >= 5
    /\ frame[1] = tag
    /\ frame[2] = SPACE
    /\ frame[Len(frame) - 1] = CR
    /\ frame[Len(frame)] = TERMINATE
\* decimal digits without a leading zero
PlainDecimal(text) ==
    /\ Len(text) >= 1
    /\ \A k \in 1 .. Len(text) : IsDigit(text[k])
    /\ Len(text) > 1 => text[1] # CHAR_0

\* C14: a call that fails the check of its arguments (a mode outside
\* Command, Streaming, Polling; a digital filter outside [0, 65365]; an
\* interval outside [0, 9]) returns EXPLORIR_ERR_INVALID_MODE resp.
\* EXPLORIR_ERR_INVALID_INPUT and has no effect: nothing is transmitted, the
\* scanner is not run, the buffer and all fields of the handler stay.
C14_RejectionHasNoEffect ==
    [][ (call' # call /\ InvalidCall(call')) =>
          /\ txlog' = txlog
          /\ replyPending' = replyPending
          /\ pc' = pc
          /\ calls' = calls
          /\ explorir_data' = explorir_data
          /\ fields' = fields
          /\ ret' = (IF call'.name = "explorir_set_operation_mode"
                     THEN EXPLORIR_ERR_INVALID_MODE
                     ELSE EXPLORIR_ERR_INVALID_INPUT) ]_vars

\* explorir_set_digital_filter(65366) was refused: nothing sent, nothing scanned
C14_Witness ==
    /\ call = Call("explorir_set_digital_filter", << 65366 >>)
    /\ ret = EXPLORIR_ERR_INVALID_INPUT
    /\ txlog = << >>
    /\ calls = 0
    /\ pc = "idle"
    /\ explorir_data = ZeroBuf

\* C15: for a digital filter f in [0, 65365] explorir_set_digital_filter
\* hands explorir_tx exactly 'A', ' ', the decimal digits of f without
\* leading zeros, '\r', '\n', the size being 4 + the number of digits.
C15_DigitalFilterFrame ==
    (call.name = "explorir_set_digital_filter" /\ call.args[1] \in 0 .. 65365)
        => /\ Len(txlog) = 1
           /\ Framed(SentFrame, SET_DIGITAL_FILTER)
           /\ PlainDecimal(Payload(SentFrame))
           /\ Digits(Payload(SentFrame), 1, 0) = call.args[1]
           /\ Len(SentFrame) = 4 + Len(Dec(call.args[1]))

\* "A 65365\r\n" was handed to explorir_tx
C15_Witness ==
    /\ call = Call("explorir_set_digital_filter", << 65365 >>)
    /\ op = "explorir_set_digital_filter"
    /\ txlog = << << 65, 32, 54, 53, 51, 54, 53, 13, 10 >> >>

\* C16: for intervals i, r in 0..9 explorir_set_auto_zero_intervals hands
\* explorir_tx the complete frame "@ i.0 r.0\r\n": 11 bytes ending in
\* carriage return and line feed.
C16_AutoZeroFrame ==
    (call.name = "explorir_set_auto_zero_intervals"
        /\ call.args[1] \in 0 .. 9 /\ call.args[2] \in 0 .. 9)
        => txlog = << << 64, 32, 48 + call.args[1], 46, 48, 32,
                         48 + call.args[2], 46, 48, 13, 10 >> >>

\* C17: for every uint32_t x the commands 'u', 'X' and 'S' transmit tag,
\* ' ', the unsigned decimal digits of x without leading zeros, '\r', '\n'
\* (size 4 + the number of digits), and the digits with their NUL fit the
\* 8 bytes of buf.
C17_IntegerFrames ==
    \A c \in { << "explorir_set_zero_point_manually", 117 >>,
               << "explorir_set_zero_point_using_known_co2", 88 >>,
               << "explorir_set_pressure_and_concentration_compensation", 83 >> } :
        call.name = c[1]
            => /\ pc # "smashed"
               /\ Len(txlog) = 1
               /\ Framed(SentFrame, c[2])
               /\ PlainDecimal(Payload(SentFrame))
               /\ U32Of(Digits(Payload(SentFrame), 1, 0)) = call.args[1]
               /\ Len(Payload(SentFrame)) + 1 <= 8

\* the frames of the wire table
WireTable ==
    { << "explorir_request_filtered_co2", << 90, 13, 10 >>, 3 >>,
      << "explorir_request_unfiltered_co2", << 122, 13, 10 >>, 3 >>,
      << "explorir_request_scaling_factor", << 46, 13, 10 >>, 3 >>,
      << "explorir_request_digital_filter", << 97, 13, 10 >>, 3 >>,
      << "explorir_set_zero_point_in_fresh_air", << 71, 13, 10 >>, 3 >>,
      << "explorir_set_zero_point_in_nitrogen", << 85, 13, 10 >>, 3 >>,
      << "explorir_request_pressure_and_concetration_compensation",
         << 115, 13, 10 >>, 3 >>,
      << "explorir_request_output_data_fields", << 81, 13, 10 >>, 3 >>,
      << "explorir_request_sensor_info", << 89, 13, 10 >>, 3 >>,
      << "explorir_request_auto_zero_config", << 64, 13, 10 >>, 3 >>,
      << "explorir_disable_auto_zeroing", << 64, 32, 48, 13, 10 >>, 5 >>,
      << "explorir_start_auto_zero", << 54, 53, 50, 50, 50, 13, 10 >>, 7 >>,
      << "explorir_set_output_data_filtered",
         << 77, 32, 48, 48, 48, 48, 52, 13, 10 >>, 9 >>,
      << "explorir_set_output_data_unfiltered",
         << 77, 32, 48, 48, 48, 48, 50, 13, 10 >>, 9 >>,
      << "explorir_set_output_data_all",
         << 77, 32, 48, 48, 48, 48, 54, 13, 10 >>, 9 >> }

\* C18: every command whose frame is a literal hands explorir_tx exactly its
\* frame of the wire table, CR LF included, the size being the length of
\* the frame: 3, 5, 7 or 9 bytes, and "K 0", "K 1", "K 2" + CR LF (5 bytes)
\* for the modes Command, Streaming, Polling.
C18_FixedFrames ==
    /\ \A w \in WireTable :
           call.name = w[1] => (txlog = << w[2] >> /\ Len(SentFrame) = w[3])
    /\ \A m \in { << EXPLORIR_MODE_COMMAND, 48 >>, << EXPLORIR_MODE_STREAMING, 49 >>,
                  << EXPLORIR_MODE_POLLING, 50 >> } :
           call = Call("explorir_set_operation_mode", << m[1] >>)
               => (txlog = << << 75, 32, m[2], 13, 10 >> >> /\ Len(SentFrame) = 5)

\* "M 00006\r\n" was handed to explorir_tx and its reply scanned
C18_Witness ==
    /\ call.name = "explorir_set_output_data_all"
    /\ txlog = << << 77, 32, 48, 48, 48, 48, 54, 13, 10 >> >>
    /\ Len(SentFrame) = 9
    /\ Returned

(***************************************************************************)
(* explorir_init: seven operations called one after the other, the status  *)
(* each returns assigned to err_code, then the cached values reset.  In    *)
(* this part txlog holds the frames explorir_init has sent so far.         *)
(***************************************************************************)
\* the frame and the size each operation of the sequence hands to
\* explorir_tx and the number of scans it makes (the arguments
\* EXPLORIR_MODE_COMMAND, DIGITAL_FILTER_DEFAULT and EXPLORIR_MODE_DEFAULT
\* pass the checks)
InitSequence ==
    << [ msg |-> << OPERATION_MODE, SPACE, ModeDigit(EXPLORIR_MODE_COMMAND), CR,
                    TERMINATE, NUL >>, size |-> 5, scans |-> 1 ],
       [ msg |-> << SENSOR_INFO, CR, TERMINATE, NUL >>, size |-> 3, scans |-> 2 ],
       [ msg |-> << SCALING_FACTOR, CR, TERMINATE, NUL >>, size |-> 3, scans |-> 1 ],
       [ msg |-> NumberFrame(SET_DIGITAL_FILTER, sprintf_d(DIGITAL_FILTER_DEFAULT)),
         size |-> 4 + Len(sprintf_d(DIGITAL_FILTER_DEFAULT)), scans |-> 1 ],
       [ msg |-> << GET_PRESSURE_AND_CONCENTRATION_COMPENSATION, CR, TERMINATE, NUL >>,
         size |-> 3, scans |-> 1 ],
       [ msg |-> MaskFrame(FILTERED_MASK + UNFILTERED_MASK), size |-> 9, scans |-> 1 ],
       [ msg |-> << OPERATION_MODE, SPACE, ModeDigit(EXPLORIR_MODE_DEFAULT), CR,
                    TERMINATE, NUL >>, size |-> 5, scans |-> 1 ] >>

\* the next operation of the sequence transmits its frame; the status the
\* operation before it returned, err_code itself, was assigned to err_code
InitSend(k) ==
    /\ txlog' = Append(txlog, Handed(InitSequence[k].msg, InitSequence[k].size))
    /\ replyPending' = TRUE
    /\ op' = "explorir_init"
    /\ call' = Call("explorir_init", << >>)
    /\ remaining' = InitSequence[k].scans
    /\ pc' = "sent"
    /\ UNCHANGED << explorir_data, fields, explorir_complete_uart_rx, i, beyond,
                    hist, calls, ret, pending, waitvars >>

\* explorir_init is called on the handler as constructed
InitBegin ==
    /\ pc = "idle"
    /\ op = "none"
    /\ call = NoCall
    /\ InitSend(1)

\* the operation in progress has returned and the next one is called
InitContinue ==
    /\ op = "explorir_init"
    /\ pc = "returned"
    /\ remaining = 0
    /\ Len(txlog) < Len(InitSequence)
    /\ InitSend(Len(txlog) + 1)

\* the sequence ending without the reset of the cached readings
InitFinish_keeps ==
    /\ op = "explorir_init"
    /\ pc = "returned"
    /\ remaining = 0
    /\ Len(txlog) = Len(InitSequence)
    /\ current_mode' = EXPLORIR_MODE_DEFAULT
    /\ digital_filter' = U32Of(DIGITAL_FILTER_DEFAULT)
    /\ op' = "none"
    /\ pc' = "idle"
    /\ UNCHANGED << explorir_data, err_code, scaling_factor, zero_point,
                    current_filtered_co2, current_unfiltered_co2,
                    pressure_and_concentration_compensation,
                    explorir_complete_uart_rx, i, beyond, remaining, txlog,
                    replyPending, hist, calls, ret, pending, call, waitvars >>

\* current_mode = EXPLORIR_MODE_DEFAULT; current_filtered_co2 = 0;
\* current_unfiltered_co2 = 0; digital_filter = DIGITAL_FILTER_DEFAULT
InitFinish ==
    /\ op = "explorir_init"
    /\ pc = "returned"
    /\ remaining = 0
    /\ Len(txlog) = Len(InitSequence)
    /\ current_mode' = EXPLORIR_MODE_DEFAULT
    /\ current_filtered_co2' = U32Of(0)
    /\ current_unfiltered_co2' = U32Of(0)
    /\ digital_filter' = U32Of(DIGITAL_FILTER_DEFAULT)
    /\ op' = "none"
    /\ pc' = "idle"
    /\ UNCHANGED << explorir_data, err_code, scaling_factor, zero_point,
                    pressure_and_concentration_compensation,
                    explorir_complete_uart_rx, i, beyond, remaining, txlog,
                    replyPending, hist, calls, ret, pending, call, waitvars >>

\* a filtered field whose tag is at offset 10
PastCursor(v) == << SPACE >> \o LateFiltered(v)
\* the replies delivered while explorir_init runs: every family of tags,
\* both CO2 fields in one line, a filtered field whose tag is past offset 9
InitReplies ==
    { BothReply(100, 50), PastCursor(100),
      Field(SCALING_FACTOR, 1) \o CRLF, Field(OPERATION_MODE, 1) \o CRLF,
      Field(GET_DIGITAL_FILTER, 1) \o CRLF,
      Field(SET_ZERO_POINT_USING_FRESH_AIR, 0) \o CRLF,
      Field(GET_PRESSURE_AND_CONCENTRATION_COMPENSATION, 0) \o CRLF }

\* a reply is delivered once the reply before it has been scanned
InitReply(resp) == ~pending /\ ReplyArrives(resp)

\* the steps of the program
InitProgram ==
    \/ InitBegin
    \/ InitContinue
    \/ RequestScan
    \/ InitFinish
    \/ ScanStep

NextInit ==
    \/ InitProgram
    \/ \E resp \in InitReplies : InitReply(resp)

\* the processor keeps executing the program
SpecInit == InitStatus /\ [][NextInit]_vars /\ WF_vars(InitProgram)

(***************************************************************************)
(* Properties of explorir_init                                             *)
(***************************************************************************)
\* "K 0", "Y", ".", "A 16", "s", "M 00006", "K 0", each with CR LF
SevenFrames ==
    << << 75, 32, 48, 13, 10 >>, << 89, 13, 10 >>, << 46, 13, 10 >>,
       << 65, 32, 49, 54, 13, 10 >>, << 115, 13, 10 >>,
       << 77, 32, 48, 48, 48, 48, 54, 13, 10 >>, << 75, 32, 48, 13, 10 >> >>
\* explorir_init has returned
InitReturned == call.name = "explorir_init" /\ op = "none"

\* C19: explorir_init transmits the same seven frames in the same order
\* whatever the buffer holds, whatever replies are delivered and whatever
\* status the steps return: mode-set to Command, sensor-info request,
\* scaling-factor request, digital filter 16, compensation request, combined
\* output, mode-set to the default mode.  It sends nothing else, and it
\* sends all seven (unless a scan has left the memory described here).
C19_InitSendsSevenFrames ==
    /\ [](call.name = "explorir_init"
            => /\ Len(txlog) <= 7
               /\ txlog = SubSeq(SevenFrames, 1, Len(txlog)))
    /\ <>(txlog = SevenFrames \/ pc = "overrun")

\* C20: when explorir_init has returned, whatever was parsed during the
\* sequence, current_filtered_co2 = 0, current_unfiltered_co2 = 0,
\* digital_filter = 16 and current_mode = EXPLORIR_MODE_DEFAULT.
C20_InitResets ==
    InitReturned
        => /\ current_filtered_co2 = U32Of(0)
           /\ current_unfiltered_co2 = U32Of(0)
           /\ digital_filter = U32Of(16)
           /\ current_mode = EXPLORIR_MODE_DEFAULT

\* explorir_init has returned after both readings and a mode had been
\* parsed from replies during the sequence
C20_Witness ==
    /\ InitReturned
    /\ txlog = SevenFrames
    /\ pre.current_filtered_co2 = U32Of(100)
    /\ pre.current_unfiltered_co2 = U32Of(50)
    /\ pre.current_mode = 1
    /\ current_filtered_co2 = U32Of(0)
    /\ current_mode = EXPLORIR_MODE_DEFAULT

(***************************************************************************)
(* A session: explorir_init, and then a request made by the host           *)
(***************************************************************************)
\* explorir_init has returned, and perhaps an operation was called since
InitDone == InitReturned \/ call.name \notin { "none", "explorir_init" }

\* a request whose frame is a literal, called once explorir_init has returned
SessionRequest(name, msg, size) ==
    /\ InitReturned
    /\ pc = "idle"
    /\ call' = Call(name, << >>)
    /\ txlog' = << Handed(msg, size) >>
    /\ replyPending' = TRUE
    /\ op' = name
    /\ remaining' = 1
    /\ pc' = "sent"
    /\ UNCHANGED << explorir_data, fields, explorir_complete_uart_rx, i, beyond,
                    hist, calls, ret, pending, waitvars >>

\* msg[] = ".\r\n"; explorir_tx(msg, 3)
SessionRequestScalingFactor ==
    SessionRequest("explorir_request_scaling_factor",
                   << SCALING_FACTOR, CR, TERMINATE, NUL >>, 3)

\* msg[] = "@\r\n"; explorir_tx(msg, 3)
SessionRequestAutoZeroConfig ==
    SessionRequest("explorir_request_auto_zero_config",
                   << AUTO_ZERO, CR, TERMINATE, NUL >>, 3)

\* return explorir_handler->err_code of the request
SessionReturn == op # "explorir_init" /\ RequestReturn

\* "@ #.# #.#\r\n", the reply to the request of the auto-zero configuration
AutoZeroReply(initial, regular) ==
    << AUTO_ZERO, SPACE, Digit(initial), 46, Digit(0), SPACE, Digit(regular), 46,
       Digit(0) >> \o CRLF
\* the replies to the requests made after explorir_init
SessionReplies == { AutoZeroReply(1, 8), Field(SCALING_FACTOR, 10) \o CRLF }

NextSession ==
    \/ InitProgram
    \/ \E resp \in InitReplies : op = "explorir_init" /\ InitReply(resp)
    \/ SessionRequestScalingFactor
    \/ SessionRequestAutoZeroConfig
    \/ SessionReturn
    \/ \E resp \in SessionReplies : op # "explorir_init" /\ InitReply(resp)

SpecSession == InitStatus /\ [][NextSession]_vars

\* C21: once explorir_init has returned, no step of a later request, no
\* delivery of a reply and no scan changes scaling_factor.
C21_ScalingFactorKept ==
    [][ (InitDone /\ InitDone') => scaling_factor' = scaling_factor ]_vars

(***************************************************************************)
(* The scanner and the getters called by the host on the reply shapes the  *)
(* header documents, with values of every size                             *)
(***************************************************************************)
\* "M #####\r\n"
MaskReply(v) == Field(SET_TYPE_AND_NUM_OF_DATA_OUTPUTS, v) \o CRLF
\* " Q #####\r\n"
FieldsReply(v) == << SPACE >> \o Field(GET_NUM_OF_OUTPUT_DATA_FIELDS, v) \o CRLF
\* a line of the sensor-info text with a serial number in it: "Y,AL17\r\n"
InfoText == << SENSOR_INFO, 44, 65, 76, Digit(1), Digit(7) >> \o CRLF
\* the replies that carry no field of the handler
NoFieldReplies == { AutoZeroReply(1, 8), MaskReply(6), FieldsReply(2), InfoLine, InfoText }
ParseReplies ==
    NoFieldReplies
    \cup { FilteredReply(100), BothReply(100, 50) }
    \cup { Field(SET_DIGITAL_FILTER, v) \o CRLF : v \in { 16, 99999 } }
    \cup { Field(OPERATION_MODE, v) \o CRLF : v \in { 2, 5 } }
    \cup { Field(t, 1) \o CRLF :
             t \in { SCALING_FACTOR, SET_ZERO_POINT_USING_FRESH_AIR,
                     GET_PRESSURE_AND_CONCENTRATION_COMPENSATION } }

\* a getter returns the field it names
Get(name, value) ==
    /\ pc \in { "idle", "returned" }
    /\ op = "none"
    /\ call' = Call(name, << >>)
    /\ ret' = value
    /\ UNCHANGED << explorir_data, fields, explorir_complete_uart_rx, pc, i,
                    beyond, op, remaining, txlog, replyPending, hist, calls,
                    pending, waitvars >>

\* the getter taking the reading out of the handler: it returns the field
\* and leaves 0 in it
explorir_get_filtered_co2_clears ==
    /\ pc \in { "idle", "returned" }
    /\ op = "none"
    /\ call' = Call("explorir_get_filtered_co2", << >>)
    /\ ret' = current_filtered_co2
    /\ current_filtered_co2' = U32Of(0)
    /\ UNCHANGED << explorir_data, err_code, scaling_factor, current_unfiltered_co2,
                    digital_filter, zero_point,
                    pressure_and_concentration_compensation, current_mode,
                    explorir_complete_uart_rx, pc, i, beyond, op, remaining,
                    txlog, replyPending, hist, calls, pending, waitvars >>

\* return explorir_handler->current_filtered_co2
explorir_get_filtered_co2 == Get("explorir_get_filtered_co2", current_filtered_co2)

\* return explorir_handler->current_unfiltered_co2
explorir_get_unfiltered_co2 ==
    Get("explorir_get_unfiltered_co2", current_unfiltered_co2)

NextParse ==
    \/ \E resp \in ParseReplies : UpdateData(resp)
    \/ ProcessResponse
    \/ ScanStep
    \/ explorir_get_filtered_co2
    \/ explorir_get_unfiltered_co2

SpecParse == Init /\ [][NextParse]_vars

\* a call of the scanner has started and not yet been followed by another
InCall == calls > 0 /\ pc \in { "scan", "returned", "overrun" }

\* C22: the cached digital_filter lies in [0, 65365] in every state,
\* whatever replies are delivered and scanned.
C22_DigitalFilterInRange ==
    /\ digital_filter[1] = 0
    /\ digital_filter[2] <= MAX_DIGITAL_FILTER

\* a step that is the call of a getter
Getters == { "explorir_get_filtered_co2", "explorir_get_unfiltered_co2" }
GetterStep == call'.name \in Getters /\ (call' # call \/ ret' # ret)

\* C25: a call of explorir_get_filtered_co2 or explorir_get_unfiltered_co2
\* returns the cached field it names and changes nothing: no frame is
\* handed to explorir_tx, the scanner is not run, the buffer, err_code and
\* every cached field stay as they were.
C25_GettersArePureReads ==
    [][ GetterStep =>
          /\ ret' = (IF call'.name = "explorir_get_filtered_co2"
                     THEN current_filtered_co2 ELSE current_unfiltered_co2)
          /\ txlog' = txlog
          /\ replyPending' = replyPending
          /\ pc' = pc
          /\ i' = i
          /\ calls' = calls
          /\ explorir_data' = explorir_data
          /\ fields' = fields ]_vars

\* both getters were called after " Z 00100 z 00050\r\n" was scanned: the one
\* called last returned the unfiltered reading, nothing was transmitted
C25_Witness ==
    /\ call.name = "explorir_get_unfiltered_co2"
    /\ ret = U32Of(50)
    /\ current_filtered_co2 = U32Of(100)
    /\ current_unfiltered_co2 = U32Of(50)
    /\ pc = "returned"
    /\ calls = 1
    /\ txlog = << >>

\* C26: a call of the scanner on a reply that carries no field of the
\* handler ("@ #.# #.#\r\n", "M #####\r\n", " Q #####\r\n", a line of the
\* sensor-info text) leaves scaling_factor, both readings, digital_filter,
\* zero_point, the compensation and current_mode as they were.
C26_NoFieldReplyChangesNothing ==
    \A reply \in NoFieldReplies :
        (InCall /\ Holds(reply)) => HandlerFields = pre

\* C28: a call of the scanner changes only the fields of the tags it has
\* parsed: scaling_factor only after '.', current_mode only after 'K',
\* digital_filter only after 'A' or 'a', zero_point only after 'F', 'G', 'U',
\* 'u' or 'X', the compensation only after 'S' or 's', current_filtered_co2
\* only after 'Z' and current_unfiltered_co2 only after 'z'.
C28_OnlyParsedFieldsChange ==
    InCall =>
        /\ scaling_factor # pre.scaling_factor => SCALING_FACTOR \in parsed
        /\ current_mode # pre.current_mode => OPERATION_MODE \in parsed
        /\ digital_filter # pre.digital_filter
               => parsed \cap { SET_DIGITAL_FILTER, GET_DIGITAL_FILTER } # { }
        /\ zero_point # pre.zero_point
               => parsed \cap { FINE_TUNE_ZERO_POINT, SET_ZERO_POINT_USING_FRESH_AIR,
                                SET_ZERO_POINT_USING_NITROGEN, MANUALLY_SET_ZERO_POINT,
                                SET_ZERO_POINT_USING_KNOWN_GAS } # { }
        /\ pressure_and_concentration_compensation
               # pre.pressure_and_concentration_compensation
               => parsed \cap { SET_PRESSURE_AND_CONCENTRATION_COMPENSATION,
                                GET_PRESSURE_AND_CONCENTRATION_COMPENSATION } # { }
        /\ current_filtered_co2 # pre.current_filtered_co2
               => FILTERED_CO2_MEASUREMENT \in parsed
        /\ current_unfiltered_co2 # pre.current_unfiltered_co2
               => UNFILTERED_CO2_MEASUREMENT \in parsed

\* a call has parsed "s 00001\r\n" and returned: the compensation is 1, every
\* other field is what it was
C28_Witness ==
    /\ Returned
    /\ parsed = { GET_PRESSURE_AND_CONCENTRATION_COMPENSATION }
    /\ pre.pressure_and_concentration_compensation = U32Of(0)
    /\ pressure_and_concentration_compensation = U32Of(1)
    /\ HandlerFields = [ pre EXCEPT !.pressure_and_concentration_compensation = U32Of(1) ]

\* C30: current_mode is Command (0), Streaming (1) or Polling (2) in every
\* state, whatever mode reply is delivered and scanned.
C30_ModeIsEnumValue ==
    current_mode \in { EXPLORIR_MODE_COMMAND, EXPLORIR_MODE_STREAMING,
                       EXPLORIR_MODE_POLLING }

(***************************************************************************)
(* explorir_wait_for_response, called by the host, and the host's receive  *)
(* handler, which interrupts it at any point.  The flag is the only object *)
(* the two share; each step below reads or writes it at most once.         *)
(***************************************************************************)
\* timer++ : the first MaxTicks iterations are steps of their own, the
\* iterations from there to RESPONSE_TIMEOUT are one step (nothing but the
\* value of timer tells them apart)
NextTimer(t) ==
    IF t < MaxTicks \/ t >= RESPONSE_TIMEOUT THEN t + 1 ELSE RESPONSE_TIMEOUT

\* the test of the timer one iteration late
TimedOut_late(t) == t > RESPONSE_TIMEOUT
\* if(timer >= RESPONSE_TIMEOUT)
TimedOut(t) == t >= RESPONSE_TIMEOUT

Waiting == pc \in { "wait_loop", "wait_reset" }

\* the replies the receive handler delivers
WaitReplies == { FilteredReply(100), BothReply(100, 50) }

\* the host's receive handler: explorir_update_data(p_response, size) and
\* explorir_complete_uart_rx = true
Notify(resp) ==
    /\ pc \in { "idle", "wait_loop", "wait_reset" }
    /\ explorir_data' = Copied(resp, Len(resp))
    /\ explorir_complete_uart_rx' = TRUE
    /\ pending' = TRUE
    /\ waited' = IF Waiting THEN [ waited EXCEPT !.delivered = TRUE ] ELSE waited
    /\ UNCHANGED << fields, pc, i, beyond, op, remaining, txlog, replyPending,
                    hist, calls, ret, call, timer >>

\* uint32_t timer = 0
WaitEnter ==
    /\ pc = "idle"
    /\ pc' = "wait_loop"
    /\ timer' = 0
    /\ waited' = Wait(explorir_complete_uart_rx, FALSE, "none")
    /\ call' = Call("explorir_wait_for_response", << >>)
    /\ pre' = HandlerFields
    /\ UNCHANGED << explorir_data, fields, explorir_complete_uart_rx, i, beyond,
                    op, remaining, txlog, replyPending, buf0, maxRead, parsed,
                    revisit, calls, ret, pending >>

\* while(!explorir_complete_uart_rx) finds the flag set
WaitSeen ==
    /\ pc = "wait_loop"
    /\ explorir_complete_uart_rx
    /\ pc' = "wait_reset"
    /\ waited' = [ waited EXCEPT !.outcome = "notified" ]
    /\ UNCHANGED << explorir_data, fields, explorir_complete_uart_rx, i, beyond,
                    op, remaining, txlog, replyPending, hist, calls, ret, pending,
                    call, timer >>

\* the flag is not set and the timer has not run out: timer++
WaitTick ==
    /\ pc = "wait_loop"
    /\ ~explorir_complete_uart_rx
    /\ ~TimedOut(timer)
    /\ timer' = NextTimer(timer)
    /\ UNCHANGED << explorir_data, fields, explorir_complete_uart_rx, pc, i,
                    beyond, op, remaining, txlog, replyPending, hist, calls, ret,
                    pending, call, waited >>

\* the flag is not set and the timer has run out:
\* err_code = EXPLORIR_ERR_TIMEOUT; break
WaitTimeout ==
    /\ pc = "wait_loop"
    /\ ~explorir_complete_uart_rx
    /\ TimedOut(timer)
    /\ err_code' = EXPLORIR_ERR_TIMEOUT
    /\ pc' = "wait_reset"
    /\ waited' = [ waited EXCEPT !.outcome = "timeout" ]
    /\ UNCHANGED << explorir_data, scaling_factor, current_filtered_co2,
                    current_unfiltered_co2, digital_filter, zero_point,
                    pressure_and_concentration_compensation, current_mode,
                    explorir_complete_uart_rx, i, beyond, op, remaining, txlog,
                    replyPending, hist, calls, ret, pending, call, timer >>

\* the flag reset only where the loop was left by "break"
WaitReset_on_break ==
    /\ pc = "wait_reset"
    /\ explorir_complete_uart_rx' =
           (waited.outcome # "timeout" /\ explorir_complete_uart_rx)
    /\ pc' = "idle"
    /\ UNCHANGED << explorir_data, fields, i, beyond, op, remaining, txlog,
                    replyPending, hist, calls, ret, pending, call, waitvars >>

\* explorir_complete_uart_rx = false, and the function returns
WaitReset ==
    /\ pc = "wait_reset"
    /\ explorir_complete_uart_rx' = FALSE
    /\ pc' = "idle"
    /\ UNCHANGED << explorir_data, fields, i, beyond, op, remaining, txlog,
                    replyPending, hist, calls, ret, pending, call, waitvars >>

\* the steps of explorir_wait_for_response
WaitProgram ==
    \/ WaitSeen
    \/ WaitTick
    \/ WaitTimeout
    \/ WaitReset

NextWait ==
    \/ WaitEnter
    \/ WaitProgram
    \/ \E resp \in WaitReplies : Notify(resp)

\* the processor keeps executing the function once it is called
SpecWait == InitStatus /\ [][NextWait]_vars /\ WF_vars(WaitProgram)

\* the call of explorir_wait_for_response made last has returned
WaitReturned == call.name = "explorir_wait_for_response" /\ pc = "idle"

\* C23: explorir_wait_for_response always returns.  The loop never makes
\* more than RESPONSE_TIMEOUT + 1 iterations (timer counts the iterations
\* that did not leave the loop); a call during which the flag was never set
\* returns after exactly that many with err_code = EXPLORIR_ERR_TIMEOUT; a
\* call that finds the flag set returns without an iteration and without
\* changing err_code.
C23_WaitReturns ==
    /\ [](timer <= RESPONSE_TIMEOUT)
    /\ []((WaitReturned /\ ~waited.entry /\ ~waited.delivered)
            => /\ waited.outcome = "timeout"
               /\ timer = RESPONSE_TIMEOUT
               /\ err_code = EXPLORIR_ERR_TIMEOUT)
    /\ []((WaitReturned /\ waited.entry)
            => /\ waited.outcome = "notified"
               /\ timer = 0
               /\ err_code = pre.err_code)
    /\ (Waiting ~> pc = "idle")

\* a call during which nothing was delivered has returned by timeout
C23_Witness ==
    /\ WaitReturned
    /\ waited = Wait(FALSE, FALSE, "timeout")
    /\ timer = RESPONSE_TIMEOUT
    /\ pre.err_code = EXPLORIR_SUCCESS
    /\ err_code = EXPLORIR_ERR_TIMEOUT

\* C24: the step by which explorir_wait_for_response returns, after a
\* notification or after the timeout, leaves explorir_complete_uart_rx false.
C24_FlagClearedOnReturn ==
    [][ (pc = "wait_reset" /\ pc' = "idle") => ~explorir_complete_uart_rx' ]_vars

\* a call that found a notification left from before has returned, the flag
\* cleared
C24_Witness ==
    /\ WaitReturned
    /\ waited = Wait(TRUE, FALSE, "notified")
    /\ ~explorir_complete_uart_rx

\* C27: under every interleaving with the receive handler, the call that
\* has recorded EXPLORIR_ERR_TIMEOUT does not clear a flag the handler has set:
\* the flag is not set when the reset after a timeout is executed.
C27_NoNotificationLost ==
    [][ (pc = "wait_reset" /\ pc' = "idle" /\ waited.outcome = "timeout")
          => ~explorir_complete_uart_rx ]_vars

(***************************************************************************)
(* explorir_update_data called with any size.  memcpy is given no bound:   *)
(* a size above UART_RX_BUF_SIZE makes it write behind explorir_data, where *)
(* the other members of explorir_handler_t lie.  Where they lie depends on *)
(* the width the build gives an enum (1 byte with short enums, else 4);    *)
(* the bytes of a member are taken in little-endian order.                 *)
(***************************************************************************)
EnumWidths == { 1, 4 }
Align(n, a) == ((n + a - 1) \div a) * a
\* offsets of the members of explorir_handler_t for enums of w bytes
Offsets(w) ==
    LET sf == Align(UART_RX_BUF_SIZE + w, 2)
        f == Align(sf + 2, 4)
    IN  [ err_code |-> UART_RX_BUF_SIZE, scaling_factor |-> sf,
          current_filtered_co2 |-> f, current_unfiltered_co2 |-> f + 4,
          digital_filter |-> f + 8, zero_point |-> f + 12,
          pressure_and_concentration_compensation |-> f + 16,
          current_mode |-> f + 20, explorir_tx |-> Align(f + 20 + w, 4) ]

\* byte k of the 32-bit value <<hi, lo>>
ByteOf(x, k) ==
    IF k = 0 THEN x[2] % 256 ELSE IF k = 1 THEN x[2] \div 256
    ELSE IF k = 2 THEN x[1] % 256 ELSE x[1] \div 256
\* the member of 'width' bytes at offset 'off', holding 'old', after size
\* bytes of p_response were copied to offset 0
Overlaid(old, off, width, p_response, size) ==
    LET b(k) == IF k < width /\ off + k < size THEN p_response[off + k + 1]
                ELSE ByteOf(old, k)
    IN  << b(2) + 256 * b(3), b(0) + 256 * b(1) >>

\* the sizes followed here: up to the offset of the member explorir_tx
CopySizes == { 0, 3, 9, UART_RX_BUF_SIZE, UART_RX_BUF_SIZE + 1, 132, 134, 140, 156 }
\* the host's receive area: a reply, and after it what the area held before
HostBuffer(reply) == [k \in 1 .. 156 |-> IF k <= Len(reply) THEN reply[k] ELSE 1]
HostBuffers == { HostBuffer(FilteredReply(100)), HostBuffer(BothReply(100, 50)) }

\* (w: the width of an enum in the build that runs)
\* memcpy(explorir_handler->explorir_data, p_response, size)
explorir_update_data(p_response, size, w) ==
    LET o == Offsets(w)
        At(old, off, width) == Overlaid(old, off, width, p_response, size)
    IN  /\ pc = "idle"
        /\ call' = Call("explorir_update_data", << size >>)
        /\ explorir_data' = Copied(p_response, size)
        /\ err_code' = AsInt(At(U32Of(err_code), o.err_code, w))
        /\ scaling_factor' = At(U32Of(scaling_factor), o.scaling_factor, 2)[2]
        /\ current_filtered_co2' = At(current_filtered_co2, o.current_filtered_co2, 4)
        /\ current_unfiltered_co2' =
               At(current_unfiltered_co2, o.current_unfiltered_co2, 4)
        /\ digital_filter' = At(digital_filter, o.digital_filter, 4)
        /\ zero_point' = At(zero_point, o.zero_point, 4)
        /\ pressure_and_concentration_compensation' =
               At(pressure_and_concentration_compensation,
                  o.pressure_and_concentration_compensation, 4)
        /\ current_mode' = AsInt(At(U32Of(current_mode), o.current_mode, w))
        /\ pending' = TRUE
        /\ UNCHANGED << explorir_complete_uart_rx, pc, i, beyond, op, remaining,
                        txlog, replyPending, hist, calls, ret, waitvars >>

NextUpdate ==
    \E p_response \in HostBuffers : \E size \in CopySizes : \E w \in EnumWidths :
        explorir_update_data(p_response, size, w)

SpecUpdate == Init /\ [][NextUpdate]_vars

\* C29: whatever its size argument, a call of explorir_update_data writes
\* into explorir_data only: err_code, scaling_factor, the readings and the
\* other members of the handler are what they were before the call.
C29_CopyStaysInBuffer ==
    [][ call'.name = "explorir_update_data" => fields' = fields ]_vars

====
